---- MODULE Spec2Model ----
(***************************************************************************)
(* Tree-based maze search: the node expansion engine (agent),              *)
(* the six search strategies and the multi-goal orchestrator               *)
(* (searchFunctions), as a state machine with one step per loop iteration. *)
(*                                                                         *)
(* JavaScript objects are references: SearchNodes live in `heap` and are   *)
(* named by their index; frontiers, trees, ancestor lists and paths are    *)
(* sequences of such indices.                                              *)
(***************************************************************************)
EXTENDS Integers, Sequences, FiniteSets, TLC

\* ---- bounds of the explored inputs --------------------------------------
MaxSide == 3     \* single-goal runs: mazes of at most MaxSide rows and columns
MaxWalls == 1
AllCells == 4    \* all-goals runs: mazes of at most AllCells cells
MaxGoals == 2
DeepCells == 12  \* depth-limited runs: mazes of at most DeepCells cells
PairSide == 4    \* paired runs: wall-free mazes of at most PairSide rows and columns
LiveSide == 2    \* runs to completion: mazes of at most LiveSide rows and columns
OpenSide == 6    \* open runs: wall-free mazes of at most OpenSide rows and columns
OpenCells == 18  \*            and at most OpenCells cells

\* ---- program constants ---------------------------------------------------
depthLimit == 10

Methods == {"DFS", "BFS", "GBFS", "AS", "CUS1", "CUS2"}

VARIABLES
  problem,            \* {mazeSize, agentLocation, goals, walls}
  searchMethod,       \* command line: DFS | BFS | GBFS | AS | CUS1 | CUS2
  allGoals,           \* command line: the allGoals flag
  pc,                 \* "main" | "loop" | "map" | "done"
  heap,               \* every object allocated so far
  goal,               \* the running strategy's goal argument
  frontier,
  searchTree,
  reverseFrontier,    \* customTwo only
  reverseSearchTree,  \* customTwo only
  goalList,           \* searchAllGoals: remaining goals (indices into problem.goals)
  startNode,          \* searchAllGoals: current position
  solutions,          \* searchAllGoals: this round's legs mapped so far
  solutionPath,       \* searchAllGoals: the selected legs
  visited,            \* searchAllGoals: the goals selected, in order
  finalSolution,      \* what searchMaze returns
  previousSolution    \* what an earlier invocation on the same Problem returned

vars == << problem, searchMethod, allGoals, pc, heap, goal, frontier, searchTree,
           reverseFrontier, reverseSearchTree, goalList, startNode, solutions,
           solutionPath, visited, finalSolution, previousSolution >>

\* ---- sequence helpers ----------------------------------------------------
Abs(n) == IF n < 0 THEN -n ELSE n

\* (mutant) `.reverse()` forgotten
ReverseNot(s) == s

Reverse(s) == [i \in 1..Len(s) |-> s[Len(s) + 1 - i]]

Range(s) == {s[i] : i \in DOMAIN s}

\* Array.prototype.sort is stable. key gives each element's sort key; an
\* element is inserted before the first element whose key is strictly larger.
\* (mutant) an unstable sort: an element goes before the elements of equal key
RECURSIVE InsertBeforeEqual(_, _, _)
InsertBeforeEqual(x, s, key) ==
  IF s = << >> THEN << x >>
  ELSE IF key[x] <= key[Head(s)] THEN << x >> \o s
  ELSE << Head(s) >> \o InsertBeforeEqual(x, Tail(s), key)

RECURSIVE InsertSorted(_, _, _)
InsertSorted(x, s, key) ==
  IF s = << >> THEN << x >>
  ELSE IF key[x] < key[Head(s)] THEN << x >> \o s
  ELSE << Head(s) >> \o InsertSorted(x, Tail(s), key)

RECURSIVE StableSort(_, _)
StableSort(s, key) ==
  IF s = << >> THEN << >>
  ELSE InsertSorted(s[Len(s)], StableSort(SubSeq(s, 1, Len(s) - 1), key), key)

\* lodash _.inRange(number, start, end): start and end are swapped when start > end
inRange(n, start, end) ==
  IF start > end THEN n >= end /\ n < start ELSE n >= start /\ n < end

\* ---- agent: the node expansion engine ------------------------------------
checkGoal(searchLocation, g) ==
  g.x = searchLocation.x /\ g.y = searchLocation.y

\* (mutant) the far edges one cell short
checkWallOneShort(searchLocation, walls) ==
  \E i \in DOMAIN walls :
    /\ inRange(searchLocation.x, walls[i].x, walls[i].x + walls[i].columns - 1)
    /\ inRange(searchLocation.y, walls[i].y, walls[i].y + walls[i].rows - 1)

checkWall(searchLocation, walls) ==
  \E i \in DOMAIN walls :
    /\ inRange(searchLocation.x, walls[i].x, walls[i].x + walls[i].columns)
    /\ inRange(searchLocation.y, walls[i].y, walls[i].y + walls[i].rows)

\* (mutant) the upper bounds compared with > instead of >=
checkOutOfBoundsOffByOne(searchLocation, mazeSize) ==
  \/ searchLocation.x < 0
  \/ searchLocation.x > mazeSize.columns
  \/ searchLocation.y < 0
  \/ searchLocation.y > mazeSize.rows

checkOutOfBounds(searchLocation, mazeSize) ==
  \/ searchLocation.x < 0
  \/ searchLocation.x >= mazeSize.columns
  \/ searchLocation.y < 0
  \/ searchLocation.y >= mazeSize.rows

\* (mutant) the y of a tree node compared with the x of the location
checkBacktrackTypo(searchLocation, tree) ==
  \E i \in DOMAIN tree :
    /\ heap[tree[i]].coordinates.x = searchLocation.x
    /\ heap[tree[i]].coordinates.y = searchLocation.x

\* (mutant) only the newest node of the tree is compared
checkBacktrackNewest(searchLocation, tree) ==
  /\ tree # << >>
  /\ heap[tree[Len(tree)]].coordinates.x = searchLocation.x
  /\ heap[tree[Len(tree)]].coordinates.y = searchLocation.y

\* tree: a sequence of heap indices
checkBacktrack(searchLocation, tree) ==
  \E i \in DOMAIN tree :
    /\ heap[tree[i]].coordinates.x = searchLocation.x
    /\ heap[tree[i]].coordinates.y = searchLocation.y

calculateManhattan(searchLocation, previousCoordinates, g) ==
  LET nodesTravelled == Len(previousCoordinates)
      distance == Abs(g.y - searchLocation.y) + Abs(g.x - searchLocation.x)
      currentDistance ==
        IF nodesTravelled = 0 THEN 0
        ELSE heap[previousCoordinates[nodesTravelled]].distanceToGoal.fromStartingNode
  IN [fromCurrentNode |-> distance,
      fromStartingNode |-> currentDistance + distance,
      nodesTravelled |-> nodesTravelled]

\* (mutant) the labels of the horizontal probes exchanged
directionStringSwapped == << "up; ", "right; ", "down; ", "left; " >>

directionString == << "up; ", "left; ", "down; ", "right; " >>

\* (mutant) the probe above the current location is lost
searchLocationsNoUp(currentLocation) ==
  << [x |-> currentLocation.x,     y |-> currentLocation.y],
     [x |-> currentLocation.x - 1, y |-> currentLocation.y],
     [x |-> currentLocation.x,     y |-> currentLocation.y + 1],
     [x |-> currentLocation.x + 1, y |-> currentLocation.y] >>

searchLocations(currentLocation) ==
  << [x |-> currentLocation.x,     y |-> currentLocation.y - 1],
     [x |-> currentLocation.x - 1, y |-> currentLocation.y],
     [x |-> currentLocation.x,     y |-> currentLocation.y + 1],
     [x |-> currentLocation.x + 1, y |-> currentLocation.y] >>

probeFilter(node, mazeSize, walls, tree) ==
  ~ ( \/ checkWall(node.coordinates, walls)
      \/ checkOutOfBounds(node.coordinates, mazeSize)
      \/ checkBacktrack(node.coordinates, tree) )

\* the new SearchNodes (not yet on the heap), in compass order
probeCoordinates(currentLocation, path, mazeSize, g, walls, tree) ==
  LET searchSpace ==
        [compass \in 1..4 |->
          [direction |-> directionString[compass],
           coordinates |-> searchLocations(currentLocation)[compass],
           isGoal |-> checkGoal(searchLocations(currentLocation)[compass], g),
           previousCoordinates |-> path,
           distanceToGoal |->
             calculateManhattan(searchLocations(currentLocation)[compass], path, g),
           depth |-> (IF path = << >> THEN 0 ELSE heap[path[Len(path)]].depth) + 1]]
      keep(node) == probeFilter(node, mazeSize, walls, tree)
  IN SelectSeq(searchSpace, keep)

getInitialNode(agentLocation, g) ==
  [direction |-> "start; ",
   coordinates |-> agentLocation,
   isGoal |-> FALSE,
   previousCoordinates |-> << >>,
   distanceToGoal |-> calculateManhattan(agentLocation, << >>, g),
   depth |-> 0]

\* the heap indices given to n objects allocated now
NewIds(n) == [i \in 1..n |-> Len(heap) + i]

\* ---- searchFunctions: what a strategy returns ----------------------------
\* (mutant) the path returned with its root entry
foundSolutionWithRoot(path, tree) ==
  [status |-> "found", path |-> path, searchTree |-> tree]

\* `return { status: "found", path: _.tail(path), searchTree }`
foundSolution(path, tree) ==
  [status |-> "found", path |-> Tail(path), searchTree |-> tree]

\* `return { status: "fail", path: [], searchTree }`
failSolution(tree) ==
  [status |-> "fail", path |-> << >>, searchTree |-> tree]

\* The strategy returns `sol` to findSolution's caller: searchMaze returns it,
\* searchAllGoals' map stores it beside the goal it was run for.
Return(sol) ==
  IF allGoals
  THEN /\ solutions' = Append(solutions,
                         [goal |-> goalList[Len(solutions) + 1], solution |-> sol])
       /\ pc' = "map"
       /\ UNCHANGED finalSolution
  ELSE /\ finalSolution' = sol
       /\ pc' = "done"
       /\ UNCHANGED solutions

Continue == pc' = pc /\ UNCHANGED << solutions, finalSolution >>

Running(method) == pc = "loop" /\ searchMethod = method

Frame == UNCHANGED << problem, searchMethod, allGoals, goal, goalList, startNode,
                      solutionPath, visited, previousSolution >>

\* sort keys of the re-sorted frontiers; h is the heap holding the nodes of s
byFromCurrentNode(s, h) ==
  [i \in Range(s) |-> h[i].distanceToGoal.fromCurrentNode]

byFromStartingNode(s, h) ==
  [i \in Range(s) |-> h[i].distanceToGoal.fromStartingNode]

\* (mutant) the spread forgotten: only the first item is pushed
pushFirst(array, items) ==
  IF items = << >> THEN array ELSE Append(array, items[1])

\* `array.push(...items)`
push(array, items) == array \o items

\* ---- dfs: one iteration of the while loop, or the return after it --------
dfs ==
  /\ Running("DFS")
  /\ Frame /\ UNCHANGED << reverseFrontier, reverseSearchTree >>
  /\ IF frontier = << >>
     THEN /\ Return(failSolution(searchTree))
          /\ UNCHANGED << heap, frontier, searchTree >>
     ELSE LET searchLocation == frontier[Len(frontier)]
              popped == SubSeq(frontier, 1, Len(frontier) - 1)
              path == Append(heap[searchLocation].previousCoordinates, searchLocation)
          IN IF heap[searchLocation].isGoal
             THEN /\ Return(foundSolution(path, searchTree))
                  /\ frontier' = popped
                  /\ UNCHANGED << heap, searchTree >>
             ELSE LET candidates ==
                        Reverse(probeCoordinates(heap[searchLocation].coordinates, path,
                                  problem.mazeSize, goal, problem.walls, searchTree))
                      ids == NewIds(Len(candidates))
                  IN /\ heap' = heap \o candidates
                     /\ frontier' = popped \o ids
                     /\ searchTree' = push(searchTree, ids)
                     /\ Continue

\* ---- bfs -----------------------------------------------------------------
\* (mutant) `frontier.pop()` in place of `frontier.shift()`
bfsPop ==
  /\ Running("BFS")
  /\ Frame /\ UNCHANGED << reverseFrontier, reverseSearchTree >>
  /\ IF frontier = << >>
     THEN /\ Return(failSolution(searchTree))
          /\ UNCHANGED << heap, frontier, searchTree >>
     ELSE LET searchLocation == frontier[1]
              path == Append(heap[searchLocation].previousCoordinates, searchLocation)
          IN IF heap[searchLocation].isGoal
             THEN /\ Return(foundSolution(path, searchTree))
                  /\ UNCHANGED << heap, frontier, searchTree >>
             ELSE LET candidates ==
                        probeCoordinates(heap[searchLocation].coordinates, path,
                          problem.mazeSize, goal, problem.walls, searchTree)
                      ids == NewIds(Len(candidates))
                  IN /\ heap' = heap \o candidates
                     /\ frontier' = SubSeq(frontier \o ids, 1,
                                           Len(frontier) + Len(ids) - 1)
                     /\ searchTree' = push(searchTree, ids)
                     /\ Continue

bfs ==
  /\ Running("BFS")
  /\ Frame /\ UNCHANGED << reverseFrontier, reverseSearchTree >>
  /\ IF frontier = << >>
     THEN /\ Return(failSolution(searchTree))
          /\ UNCHANGED << heap, frontier, searchTree >>
     ELSE LET searchLocation == frontier[1]
              path == Append(heap[searchLocation].previousCoordinates, searchLocation)
          IN IF heap[searchLocation].isGoal
             THEN /\ Return(foundSolution(path, searchTree))
                  /\ UNCHANGED << heap, frontier, searchTree >>
             ELSE LET candidates ==
                        probeCoordinates(heap[searchLocation].coordinates, path,
                          problem.mazeSize, goal, problem.walls, searchTree)
                      ids == NewIds(Len(candidates))
                  IN /\ heap' = heap \o candidates
                     /\ frontier' = Tail(frontier \o ids)
                     /\ searchTree' = push(searchTree, ids)
                     /\ Continue

\* ---- gbfs ----------------------------------------------------------------
gbfs ==
  /\ Running("GBFS")
  /\ Frame /\ UNCHANGED << reverseFrontier, reverseSearchTree >>
  /\ IF frontier = << >>
     THEN /\ Return(failSolution(searchTree))
          /\ UNCHANGED << heap, frontier, searchTree >>
     ELSE LET searchLocation == frontier[1]
              shifted == Tail(frontier)
              path == Append(heap[searchLocation].previousCoordinates, searchLocation)
          IN IF heap[searchLocation].isGoal
             THEN /\ Return(foundSolution(path, searchTree))
                  /\ frontier' = shifted
                  /\ UNCHANGED << heap, searchTree >>
             ELSE LET candidates ==
                        probeCoordinates(heap[searchLocation].coordinates, path,
                          problem.mazeSize, goal, problem.walls, searchTree)
                      ids == NewIds(Len(candidates))
                  IN /\ heap' = heap \o candidates
                     /\ frontier' = StableSort(shifted \o ids,
                                     byFromCurrentNode(shifted \o ids, heap \o candidates))
                     /\ searchTree' = push(searchTree, ids)
                     /\ Continue

\* ---- aStar ---------------------------------------------------------------
aStar ==
  /\ Running("AS")
  /\ Frame /\ UNCHANGED << reverseFrontier, reverseSearchTree >>
  /\ IF frontier = << >>
     THEN /\ Return(failSolution(searchTree))
          /\ UNCHANGED << heap, frontier, searchTree >>
     ELSE LET searchLocation == frontier[1]
              shifted == Tail(frontier)
              path == Append(heap[searchLocation].previousCoordinates, searchLocation)
          IN IF heap[searchLocation].isGoal
             THEN /\ Return(foundSolution(path, searchTree))
                  /\ frontier' = shifted
                  /\ UNCHANGED << heap, searchTree >>
             ELSE LET candidates ==
                        probeCoordinates(heap[searchLocation].coordinates, path,
                          problem.mazeSize, goal, problem.walls, searchTree)
                      ids == NewIds(Len(candidates))
                  IN /\ heap' = heap \o candidates
                     /\ frontier' = StableSort(shifted \o ids,
                                     byFromStartingNode(shifted \o ids, heap \o candidates))
                     /\ searchTree' = push(searchTree, ids)
                     /\ Continue

\* ---- customOne: depth limited dfs ----------------------------------------
\* (mutant) no depth test: the candidates are always pushed
pushAlways(candidates) == TRUE

\* (mutant) the test of the older copy of the file: `!== depthLimit`
belowLimitExclusive(candidates) ==
  (IF candidates = << >> THEN 0 ELSE candidates[1].depth) # depthLimit

\* `_.get(candidates[0], "depth", 0) !== depthLimit + 1`
belowLimit(candidates) ==
  (IF candidates = << >> THEN 0 ELSE candidates[1].depth) # depthLimit + 1

customOne ==
  /\ Running("CUS1")
  /\ Frame /\ UNCHANGED << reverseFrontier, reverseSearchTree >>
  /\ IF frontier = << >>
     THEN /\ Return(failSolution(searchTree))
          /\ UNCHANGED << heap, frontier, searchTree >>
     ELSE LET searchLocation == frontier[Len(frontier)]
              popped == SubSeq(frontier, 1, Len(frontier) - 1)
              path == Append(heap[searchLocation].previousCoordinates, searchLocation)
          IN IF heap[searchLocation].isGoal
             THEN /\ Return(foundSolution(path, searchTree))
                  /\ frontier' = popped
                  /\ UNCHANGED << heap, searchTree >>
             ELSE LET candidates ==
                        Reverse(probeCoordinates(heap[searchLocation].coordinates, path,
                                  problem.mazeSize, goal, problem.walls, searchTree))
                      ids == NewIds(Len(candidates))
                  IN /\ heap' = heap \o candidates
                     /\ searchTree' = push(searchTree, ids)
                     /\ frontier' = IF belowLimit(candidates)
                                    THEN popped \o ids ELSE popped
                     /\ Continue

\* ---- customTwo: bidirectional A* ------------------------------------------
\* `tree.some(n => n.coordinates.x === c.x && n.coordinates.y === c.y)`
someAt(tree, c) ==
  \E i \in DOMAIN tree :
    heap[tree[i]].coordinates.x = c.x /\ heap[tree[i]].coordinates.y = c.y

\* `tree.find(...)`: the first node of the tree at coordinate c
findAt(tree, c) ==
  LET hits == {i \in DOMAIN tree :
                 heap[tree[i]].coordinates.x = c.x /\ heap[tree[i]].coordinates.y = c.y}
  IN tree[CHOOSE i \in hits : \A j \in hits : i <= j]

\* (mutant) a meeting only when both sides pop the same coordinate
intersectingPoppedOnly(searchLocation, reverseSearchLocation) ==
  IF heap[searchLocation].coordinates = heap[reverseSearchLocation].coordinates
  THEN searchLocation
  ELSE 0

\* 0 stands for undefined
intersectingCoordinate(searchLocation, reverseSearchLocation) ==
  IF someAt(reverseSearchTree, heap[searchLocation].coordinates)
  THEN searchLocation
  ELSE IF someAt(searchTree, heap[reverseSearchLocation].coordinates)
  THEN reverseSearchLocation
  ELSE 0

\* (mutant) the comparisons of the y coordinates exchanged
currentDirectionFlipped(joinedPath, index) ==
  IF index = 1 THEN "start; "
  ELSE LET previousCoordinate == heap[joinedPath[index - 1]].coordinates
           p == heap[joinedPath[index]]
       IN IF previousCoordinate.y < p.coordinates.y THEN "up; "
          ELSE IF previousCoordinate.x > p.coordinates.x THEN "left; "
          ELSE IF previousCoordinate.y > p.coordinates.y THEN "down; "
          ELSE IF previousCoordinate.x < p.coordinates.x THEN "right; "
          ELSE "broken; "

\* the direction label of joinedPath[index], recomputed from its predecessor
currentDirection(joinedPath, index) ==
  IF index = 1 THEN "start; "
  ELSE LET previousCoordinate == heap[joinedPath[index - 1]].coordinates
           p == heap[joinedPath[index]]
       IN IF previousCoordinate.y > p.coordinates.y THEN "up; "
          ELSE IF previousCoordinate.x > p.coordinates.x THEN "left; "
          ELSE IF previousCoordinate.y < p.coordinates.y THEN "down; "
          ELSE IF previousCoordinate.x < p.coordinates.x THEN "right; "
          ELSE "broken; "

\* `intersectingReversePath.reverse()` reverses in place the ancestor array of
\* the backward node; the nodes generated by the same expansion share that array.
reverseInPlace(node) ==
  [i \in DOMAIN heap |->
    IF /\ i \in Range(reverseSearchTree)
       /\ heap[node].previousCoordinates # << >>
       /\ heap[i].previousCoordinates = heap[node].previousCoordinates
    THEN [heap[i] EXCEPT !.previousCoordinates = Reverse(@)]
    ELSE heap[i]]

\* (mutant) the backward ancestors joined without `.reverse()`
joinedPathUnreversed(meeting) ==
  LET c == heap[meeting].coordinates
      intersectingForwardPath == heap[findAt(searchTree, c)].previousCoordinates
      intersectingReversePath == heap[findAt(reverseSearchTree, c)].previousCoordinates
  IN intersectingForwardPath \o << meeting >> \o intersectingReversePath

\* `intersectingForwardPath.concat(intersectingCoordinate,
\*                                 intersectingReversePath.reverse())`
joinedPathAt(meeting) ==
  LET c == heap[meeting].coordinates
      intersectingForwardPath == heap[findAt(searchTree, c)].previousCoordinates
      intersectingReversePath == heap[findAt(reverseSearchTree, c)].previousCoordinates
  IN intersectingForwardPath \o << meeting >> \o Reverse(intersectingReversePath)

\* the Solution's searchTree: `searchTree.concat(reverseSearchTree)`
bothTrees == searchTree \o reverseSearchTree

\* (mutant) the forward test off by one
bothFrontiersOffByOne == Len(frontier) > 1 /\ Len(reverseFrontier) > 0

\* `while (frontier.length > 0 && reverseFrontier.length > 0)`
bothFrontiers == Len(frontier) > 0 /\ Len(reverseFrontier) > 0

customTwo ==
  /\ Running("CUS2")
  /\ Frame
  /\ IF ~ bothFrontiers
     THEN /\ Return(failSolution(bothTrees))
          /\ UNCHANGED << heap, frontier, searchTree, reverseFrontier, reverseSearchTree >>
     ELSE LET searchLocation == frontier[1]
              path == Append(heap[searchLocation].previousCoordinates, searchLocation)
              reverseSearchLocation == reverseFrontier[1]
              reversePath == Append(heap[reverseSearchLocation].previousCoordinates,
                                    reverseSearchLocation)
              meeting == intersectingCoordinate(searchLocation, reverseSearchLocation)
          IN IF meeting # 0
             THEN LET reverseNode == findAt(reverseSearchTree, heap[meeting].coordinates)
                      joinedPath == joinedPathAt(meeting)
                      finalPath == [index \in 1..Len(joinedPath) |->
                                     [direction |-> currentDirection(joinedPath, index)]]
                  IN /\ heap' = reverseInPlace(reverseNode) \o finalPath
                     /\ Return([status |-> "found",
                                path |-> Tail(NewIds(Len(finalPath))),
                                searchTree |-> bothTrees])
                     /\ frontier' = Tail(frontier)
                     /\ reverseFrontier' = Tail(reverseFrontier)
                     /\ UNCHANGED << searchTree, reverseSearchTree >>
             ELSE LET candidates ==
                        probeCoordinates(heap[searchLocation].coordinates, path,
                          problem.mazeSize, goal, problem.walls, searchTree)
                      ids == NewIds(Len(candidates))
                      reverseCandidates ==
                        probeCoordinates(heap[reverseSearchLocation].coordinates,
                          reversePath, problem.mazeSize, problem.agentLocation,
                          problem.walls, reverseSearchTree)
                      reverseIds == [i \in 1..Len(reverseCandidates) |->
                                      Len(heap) + Len(candidates) + i]
                      h == heap \o candidates \o reverseCandidates
                  IN /\ heap' = h
                     /\ frontier' = StableSort(Tail(frontier) \o ids,
                                      byFromStartingNode(Tail(frontier) \o ids, h))
                     /\ searchTree' = push(searchTree, ids)
                     /\ reverseFrontier' =
                          StableSort(Tail(reverseFrontier) \o reverseIds,
                            byFromStartingNode(Tail(reverseFrontier) \o reverseIds, h))
                     /\ reverseSearchTree' = push(reverseSearchTree, reverseIds)
                     /\ Continue

\* ---- findSolution: build the root and enter the selected algorithm -------
\* customTwo allocates its backward root before its loop.
findSolution(start, g) ==
  LET initialSearchCoordinate == getInitialNode(start, g)
      reverseInitialSearchCoordinate == getInitialNode(g, problem.agentLocation)
  IN /\ goal' = g
     /\ frontier' = << Len(heap) + 1 >>
     /\ searchTree' = << Len(heap) + 1 >>
     /\ IF searchMethod = "CUS2"
        THEN /\ heap' = heap \o << initialSearchCoordinate,
                                   reverseInitialSearchCoordinate >>
             /\ reverseFrontier' = << Len(heap) + 2 >>
             /\ reverseSearchTree' = << Len(heap) + 2 >>
        ELSE /\ heap' = Append(heap, initialSearchCoordinate)
             /\ reverseFrontier' = << >>
             /\ reverseSearchTree' = << >>
     /\ pc' = "loop"

\* ---- searchMaze ----------------------------------------------------------
searchMaze ==
  /\ pc = "main"
  /\ ~ allGoals
  /\ findSolution(problem.agentLocation, problem.goals[1])
  /\ UNCHANGED << problem, searchMethod, allGoals, goalList, startNode, solutions,
                  solutionPath, visited, finalSolution, previousSolution >>

\* ---- searchAllGoals ------------------------------------------------------
\* entry: `goalList = _.cloneDeep(goals)`; a goal object is named by its index
searchAllGoals ==
  /\ pc = "main"
  /\ allGoals
  /\ goalList' = [i \in 1..Len(problem.goals) |-> i]
  /\ startNode' = problem.agentLocation
  /\ solutionPath' = << >>
  /\ solutions' = << >>
  /\ pc' = "map"
  /\ UNCHANGED << problem, searchMethod, allGoals, heap, goal, frontier, searchTree,
                  reverseFrontier, reverseSearchTree, visited, finalSolution,
                  previousSolution >>

\* `goalList.map(goal => findSolution(problem, startNode, goal, searchMethod))`:
\* the call for the next goal of the list
mapGoal ==
  /\ pc = "map"
  /\ Len(solutions) < Len(goalList)
  /\ findSolution(startNode, problem.goals[goalList[Len(solutions) + 1]])
  /\ UNCHANGED << problem, searchMethod, allGoals, goalList, startNode, solutions,
                  solutionPath, visited, finalSolution, previousSolution >>

\* (mutant) the comparator's operands exchanged: ascending path length
sortSolutionsAscending(sols) ==
  LET order == StableSort([i \in 1..Len(sols) |-> i],
                          [i \in 1..Len(sols) |-> Len(sols[i].solution.path)])
  IN [k \in 1..Len(sols) |-> sols[order[k]]]

\* `.sort((a, b) => b.solution.path.length - a.solution.path.length)`
sortSolutions(sols) ==
  LET order == StableSort([i \in 1..Len(sols) |-> i],
                          [i \in 1..Len(sols) |-> 0 - Len(sols[i].solution.path)])
  IN [k \in 1..Len(sols) |-> sols[order[k]]]

\* (mutant) goals compared by their coordinates
removeGoalByValue(list, g) ==
  LET other(x) == problem.goals[x] # problem.goals[g]
  IN SelectSeq(list, other)

\* `goalList.filter((goal) => goal !== solution.goal)`: goals compared by reference
removeGoal(list, g) ==
  LET other(x) == x # g
  IN SelectSeq(list, other)

\* the rest of one round: sort, pop, push, filter, advance
selectSolution ==
  /\ pc = "map"
  /\ Len(goalList) > 0
  /\ Len(solutions) = Len(goalList)
  /\ LET sorted == sortSolutions(solutions)
         solution == sorted[Len(sorted)]
     IN /\ solutionPath' = Append(solutionPath, solution.solution)
        /\ goalList' = removeGoal(goalList, solution.goal)
        /\ startNode' = problem.goals[solution.goal]
        /\ visited' = Append(visited, solution.goal)
  /\ solutions' = << >>
  /\ UNCHANGED << problem, searchMethod, allGoals, pc, heap, goal, frontier,
                  searchTree, reverseFrontier, reverseSearchTree, finalSolution,
                  previousSolution >>

\* `solutionPath.reduce(...)` from { status: "fail", path: [], searchTree: [] }
RECURSIVE reduceSolutions(_)
reduceSolutions(sp) ==
  IF sp = << >> THEN [status |-> "fail", path |-> << >>, searchTree |-> << >>]
  ELSE LET combinedSolution == reduceSolutions(SubSeq(sp, 1, Len(sp) - 1))
           solution == sp[Len(sp)]
       IN [status |-> "found",
           searchTree |-> combinedSolution.searchTree \o solution.searchTree,
           path |-> combinedSolution.path \o solution.path]

returnAllGoals ==
  /\ pc = "map"
  /\ Len(goalList) = 0
  /\ finalSolution' = reduceSolutions(solutionPath)
  /\ pc' = "done"
  /\ UNCHANGED << problem, searchMethod, allGoals, heap, goal, frontier, searchTree,
                  reverseFrontier, reverseSearchTree, goalList, startNode, solutions,
                  solutionPath, visited, previousSolution >>

\* ---- the inputs explored -------------------------------------------------
Sizes == [rows : 1..MaxSide, columns : 1..MaxSide]

AllSizes == {ms \in [rows : 1..AllCells, columns : 1..AllCells] :
               ms.rows * ms.columns <= AllCells}

Cells(ms) == {[x |-> x, y |-> y] : x \in 0..(ms.columns - 1), y \in 0..(ms.rows - 1)}

\* wall rectangles lying inside the maze
Rects(ms) ==
  {w \in [x : 0..(ms.columns - 1), y : 0..(ms.rows - 1),
          columns : 1..ms.columns, rows : 1..ms.rows] :
     w.x + w.columns <= ms.columns /\ w.y + w.rows <= ms.rows}

\* the order of the walls in the input is immaterial (checkWall is a `some`):
\* wall lists are explored in one order only
WallKey(ms, w) ==
  ((w.x * ms.rows + w.y) * (ms.columns + 1) + w.columns) * (ms.rows + 1) + w.rows

WallLists(ms) ==
  UNION {{ws \in [1..n -> Rects(ms)] :
            \A i \in 1..(n - 1) : WallKey(ms, ws[i]) < WallKey(ms, ws[i + 1])} :
         n \in 0..MaxWalls}

GoalLists(ms, n) == UNION {[1..k -> Cells(ms)] : k \in 1..n}

Problems(all) ==
  {[mazeSize |-> q[1], agentLocation |-> q[2], goals |-> q[3], walls |-> q[4]] :
     q \in UNION {{ms} \X Cells(ms) \X GoalLists(ms, IF all THEN MaxGoals ELSE 1)
                       \X WallLists(ms) :
                  ms \in IF all THEN AllSizes ELSE Sizes}}

\* no Solution yet
noSolution == [status |-> "none", path |-> << >>, searchTree |-> << >>]

\* the program loaded with `problem`, before searchMaze is called
Loaded ==
  /\ pc = "main"
  /\ heap = << >>
  /\ goal = problem.goals[1]
  /\ frontier = << >>
  /\ searchTree = << >>
  /\ reverseFrontier = << >>
  /\ reverseSearchTree = << >>
  /\ goalList = << >>
  /\ startNode = problem.agentLocation
  /\ solutions = << >>
  /\ solutionPath = << >>
  /\ visited = << >>
  /\ finalSolution = noSolution
  /\ previousSolution = noSolution

Init ==
  /\ allGoals \in BOOLEAN
  /\ problem \in Problems(allGoals)
  /\ searchMethod \in Methods
  /\ Loaded

Next ==
  \/ searchMaze
  \/ searchAllGoals
  \/ mapGoal
  \/ selectSolution
  \/ returnAllGoals
  \/ dfs
  \/ bfs
  \/ gbfs
  \/ aStar
  \/ customOne
  \/ customTwo

Spec == Init /\ [][Next]_vars


\* ---- depth-limited runs: CUS1 on mazes long enough to reach the limit ----
DeepSizes == {ms \in [rows : 1..DeepCells, columns : 1..DeepCells] :
                ms.rows * ms.columns <= DeepCells}

\* no wall, or one wall of one cell
UnitWalls(ms) ==
  {<< >>} \cup {<< [x |-> c.x, y |-> c.y, columns |-> 1, rows |-> 1] >> : c \in Cells(ms)}

DeepProblems ==
  {[mazeSize |-> q[1], agentLocation |-> q[2], goals |-> << q[3] >>, walls |-> q[4]] :
     q \in UNION {{ms} \X Cells(ms) \X Cells(ms) \X UnitWalls(ms) : ms \in DeepSizes}}

InitDeep ==
  /\ allGoals = FALSE
  /\ problem \in DeepProblems
  /\ searchMethod = "CUS1"
  /\ Loaded

NextDeep ==
  \/ searchMaze
  \/ customOne

SpecDeep == InitDeep /\ [][NextDeep]_vars

\* ---- open runs: CUS1 on wall-free mazes wider than the depth-limited ones -
OpenSizes == {ms \in [rows : 1..OpenSide, columns : 1..OpenSide] :
                ms.rows * ms.columns <= OpenCells}

OpenProblems ==
  {[mazeSize |-> q[1], agentLocation |-> q[2], goals |-> << q[3] >>, walls |-> << >>] :
     q \in UNION {{ms} \X Cells(ms) \X Cells(ms) : ms \in OpenSizes}}

InitOpen ==
  /\ allGoals = FALSE
  /\ problem \in OpenProblems
  /\ searchMethod = "CUS1"
  /\ Loaded

NextOpen ==
  \/ searchMaze
  \/ customOne

SpecOpen == InitOpen /\ [][NextOpen]_vars

\* ---- runs to completion: every strategy, single-goal and all-goals --------
LiveProblems(all) ==
  {p \in Problems(all) : p.mazeSize.rows <= LiveSide /\ p.mazeSize.columns <= LiveSide}

InitLive ==
  /\ allGoals \in BOOLEAN
  /\ problem \in LiveProblems(allGoals)
  /\ searchMethod \in Methods
  /\ Loaded

\* the program is one thread that runs to completion: a step that can be
\* taken is taken
SpecLive == InitLive /\ [][Next]_vars /\ WF_vars(Next)

\* ---- paired runs: AS, then CUS2, on the same wall-free Problem -----------
PairSizes == [rows : 1..PairSide, columns : 1..PairSide]

PairProblems ==
  {[mazeSize |-> q[1], agentLocation |-> q[2], goals |-> << q[3] >>, walls |-> << >>] :
     q \in UNION {{ms} \X Cells(ms) \X Cells(ms) : ms \in PairSizes}}

\* the program is invoked again on the same file with the method CUS2; the
\* Solution of the first invocation is kept for comparison
runAgain ==
  /\ pc = "done"
  /\ ~ allGoals
  /\ searchMethod = "AS"
  /\ previousSolution = noSolution
  /\ previousSolution' = finalSolution
  /\ searchMethod' = "CUS2"
  /\ finalSolution' = noSolution
  /\ pc' = "main"
  /\ UNCHANGED << problem, allGoals, heap, goal, frontier, searchTree, reverseFrontier,
                  reverseSearchTree, goalList, startNode, solutions, solutionPath,
                  visited >>

InitPair ==
  /\ allGoals = FALSE
  /\ problem \in PairProblems
  /\ searchMethod = "AS"
  /\ Loaded

NextPair ==
  \/ searchMaze
  \/ aStar
  \/ customTwo
  \/ runAgain

SpecPair == InitPair /\ [][NextPair]_vars

\* ==== the claims ========================================================

manhattan(a, b) == Abs(a.x - b.x) + Abs(a.y - b.y)

coordinatesOf(tree) == [i \in DOMAIN tree |-> heap[tree[i]].coordinates]

NoDuplicates(s) == \A i, j \in DOMAIN s : i # j => s[i] # s[j]

SingleDone == pc = "done" /\ ~ allGoals

AllDone == pc = "done" /\ allGoals

\* every Solution a strategy has returned and the program still holds
Returned ==
  IF allGoals
  THEN {solutions[k].solution : k \in DOMAIN solutions} \cup Range(solutionPath)
  ELSE IF pc = "done" THEN {finalSolution} ELSE {}

\* C1: when start equals goal, the single-goal search returns Found with an
\* empty path and a searchTree that holds only the root, for every strategy.
C1_StartIsGoalFound ==
  (SingleDone /\ problem.agentLocation = problem.goals[1]) =>
     /\ finalSolution.status = "found"
     /\ finalSolution.path = << >>
     /\ Len(finalSolution.searchTree) = 1

\* C2: searchAllGoals returns Found iff every appended leg was Found.
C2_FoundIffEveryLegFound ==
  AllDone =>
    (finalSolution.status = "found"
       <=> \A i \in DOMAIN solutionPath : solutionPath[i].status = "found")

\* C3: with n goals searchAllGoals runs n rounds, selects every input goal in
\* exactly one round, the remaining set shrinking by one per round down to
\* empty, and returns the concatenation, in visiting order and without
\* deduplication, of the selected legs' paths and of their searchTrees.
RECURSIVE Concat(_)
Concat(ss) == IF ss = << >> THEN << >> ELSE Head(ss) \o Concat(Tail(ss))

C3_EveryGoalOnce ==
  (allGoals /\ pc # "main") =>
    /\ NoDuplicates(visited \o goalList)
    /\ Range(visited \o goalList) = DOMAIN problem.goals
    /\ Len(solutionPath) = Len(visited)
    /\ AllDone =>
         /\ goalList = << >>
         /\ Len(visited) = Len(problem.goals)
         /\ finalSolution.path =
              Concat([i \in DOMAIN solutionPath |-> solutionPath[i].path])
         /\ finalSolution.searchTree =
              Concat([i \in DOMAIN solutionPath |-> solutionPath[i].searchTree])

\* two goals at the same coordinate, both visited, and a non-empty tour
C3_Witness ==
  /\ AllDone
  /\ Len(problem.goals) = 2
  /\ problem.goals[1] = problem.goals[2]
  /\ Len(visited) = 2
  /\ finalSolution.path # << >>
  /\ Len(finalSolution.searchTree) > Len(solutionPath[1].searchTree)

\* C4: in every round the strategy is run from the current position to every
\* remaining goal, the leg selected is one no other leg of the round is
\* strictly shorter than, and the next round starts at the selected goal.
C4_NearestNext ==
  [][ (pc = "map" /\ Len(visited') = Len(visited) + 1) =>
        LET sel == visited'[Len(visited')]
            leg == solutionPath'[Len(solutionPath')]
        IN /\ Len(solutions) = Len(goalList)
           /\ \A k \in DOMAIN solutions :
                /\ solutions[k].goal = goalList[k]
                /\ heap[solutions[k].solution.searchTree[1]].coordinates = startNode
                /\ heap[solutions[k].solution.searchTree[1]].distanceToGoal.fromCurrentNode
                     = manhattan(startNode, problem.goals[goalList[k]])
                /\ Len(leg.path) <= Len(solutions[k].solution.path)
           /\ \E k \in DOMAIN solutions :
                solutions[k].goal = sel /\ solutions[k].solution = leg
           /\ sel \in Range(goalList)
           /\ startNode' = problem.goals[sel] ]_vars

\* the first goal of the input was selected before the second: its leg was
\* strictly shorter (of equal legs the later goal is taken)
C4_Witness ==
  /\ AllDone
  /\ visited = << 1, 2 >>
  /\ \A i \in 1..2 : solutionPath[i].status = "found" /\ solutionPath[i].path # << >>
  /\ startNode = problem.goals[2]

\* C5: on a wall-free maze BFS returns Found with a path as long as the
\* Manhattan distance between start and goal, for every in-bounds start and goal.
C5_BfsManhattan ==
  (SingleDone /\ searchMethod = "BFS" /\ problem.walls = << >>) =>
     /\ finalSolution.status = "found"
     /\ Len(finalSolution.path) = manhattan(problem.agentLocation, problem.goals[1])

\* C6: the path of a Found Solution never holds the root node, the node
\* labelled "start; ": it begins with the first move away from the start.
C6_PathExcludesRoot ==
  /\ \A sol \in Returned :
       sol.status = "found" =>
         /\ \A i \in DOMAIN sol.path :
              /\ sol.path[i] # sol.searchTree[1]
              /\ heap[sol.path[i]].direction # "start; "
         /\ (sol.path # << >> /\ searchMethod # "CUS2") =>
              /\ heap[sol.path[1]].previousCoordinates = << sol.searchTree[1] >>
              /\ manhattan(heap[sol.path[1]].coordinates,
                           heap[sol.searchTree[1]].coordinates) = 1
  /\ pc = "done" =>
       \A i \in DOMAIN finalSolution.path :
         heap[finalSolution.path[i]].direction # "start; "

C6_Witness ==
  /\ SingleDone
  /\ searchMethod = "GBFS"
  /\ finalSolution.status = "found"
  /\ Len(finalSolution.path) >= 3

\* C7: at every moment of a run no two nodes of a working searchTree have
\* equal coordinates (the forward and the backward tree of CUS2 each), and
\* the frontier holds nodes of the tree, each once.
C7_NoDuplicateCoordinates ==
  /\ NoDuplicates(coordinatesOf(searchTree))
  /\ NoDuplicates(coordinatesOf(reverseSearchTree))
  /\ NoDuplicates(frontier)
  /\ NoDuplicates(reverseFrontier)
  /\ Range(frontier) \subseteq Range(searchTree)
  /\ Range(reverseFrontier) \subseteq Range(reverseSearchTree)

\* both trees have grown and a neighbour of the node about to be expanded is
\* already in the tree
C7_Witness ==
  /\ pc = "loop"
  /\ Len(searchTree) >= 5
  /\ Len(reverseSearchTree) >= 4
  /\ frontier # << >>
  /\ \E i \in 1..4 :
       checkBacktrack(searchLocations(heap[frontier[1]].coordinates)[i], searchTree)

\* the Solution the running strategy has just returned
JustReturned ==
  IF allGoals THEN pc = "map" /\ solutions # << >> ELSE pc = "done"

lastSolution ==
  IF allGoals THEN solutions[Len(solutions)].solution ELSE finalSolution

\* C8 as stated: the searchTree of the Solution returned by CUS2 holds no two
\* nodes with equal coordinates.
C8_UnionNoDuplicates ==
  \A sol \in Returned :
    searchMethod = "CUS2" => NoDuplicates(coordinatesOf(sol.searchTree))

\* C8 amended: the searchTree returned by CUS2 is the forward tree followed by
\* the backward tree; neither tree holds a coordinate twice; on Found the two
\* trees share at least one coordinate, which the returned searchTree holds
\* twice; on Fail, when neither the start nor the goal is in a wall, they
\* share none.
C8_ConcatOfTrees ==
  (searchMethod = "CUS2" /\ JustReturned) =>
     /\ lastSolution.searchTree = searchTree \o reverseSearchTree
     /\ NoDuplicates(coordinatesOf(searchTree))
     /\ NoDuplicates(coordinatesOf(reverseSearchTree))
     /\ (lastSolution.status = "fail"
           /\ ~ checkWall(heap[searchTree[1]].coordinates, problem.walls)
           /\ ~ checkWall(heap[reverseSearchTree[1]].coordinates, problem.walls)) =>
          NoDuplicates(coordinatesOf(lastSolution.searchTree))
     /\ lastSolution.status = "found" =>
          Range(coordinatesOf(searchTree)) \cap Range(coordinatesOf(reverseSearchTree))
            # {}

\* CUS2 has failed with both trees grown
C8_Witness ==
  /\ searchMethod = "CUS2"
  /\ JustReturned
  /\ lastSolution.status = "fail"
  /\ Len(searchTree) >= 2
  /\ Len(reverseSearchTree) >= 2

\* C9: expand returns exactly the neighbours, in the order up, left, down,
\* right, that are in no wall rectangle, within the maze bounds and at no
\* coordinate of the supplied searchTree.
C9_InWall(c) ==
  \E i \in DOMAIN problem.walls :
    /\ c.x \in problem.walls[i].x .. (problem.walls[i].x + problem.walls[i].columns - 1)
    /\ c.y \in problem.walls[i].y .. (problem.walls[i].y + problem.walls[i].rows - 1)

C9_InBounds(c) ==
  /\ c.x \in 0 .. (problem.mazeSize.columns - 1)
  /\ c.y \in 0 .. (problem.mazeSize.rows - 1)

C9_Deltas ==
  << [dx |-> 0, dy |-> -1, label |-> "up; "],
     [dx |-> -1, dy |-> 0, label |-> "left; "],
     [dx |-> 0, dy |-> 1, label |-> "down; "],
     [dx |-> 1, dy |-> 0, label |-> "right; "] >>

\* occupied: the coordinates of the supplied searchTree
C9_Expected(loc, occupied) ==
  LET ok(d) ==
        LET c == [x |-> loc.x + d.dx, y |-> loc.y + d.dy]
        IN ~ C9_InWall(c) /\ C9_InBounds(c) /\ c \notin occupied
      kept == SelectSeq(C9_Deltas, ok)
  IN [i \in DOMAIN kept |->
       [coordinates |-> [x |-> loc.x + kept[i].dx, y |-> loc.y + kept[i].dy],
        direction |-> kept[i].label]]

C9_Trees ==
  IF searchMethod = "CUS2" THEN {searchTree, reverseSearchTree} ELSE {searchTree}

C9_ExpandExact ==
  pc = "loop" =>
    \A tree \in C9_Trees :
      LET occupied == Range(coordinatesOf(tree))
      IN \A loc \in Cells(problem.mazeSize) :
           LET out == probeCoordinates(loc, << >>, problem.mazeSize, goal,
                                       problem.walls, tree)
           IN [i \in DOMAIN out |->
                [coordinates |-> out[i].coordinates, direction |-> out[i].direction]]
                = C9_Expected(loc, occupied)

\* the node about to be expanded has a neighbour in a wall, one out of
\* bounds, one already in the tree and one that is returned
C9_Witness ==
  /\ pc = "loop"
  /\ frontier # << >>
  /\ LET n == searchLocations(heap[frontier[1]].coordinates)
     IN /\ \E i \in 1..4 : checkWall(n[i], problem.walls)
        /\ \E i \in 1..4 : checkOutOfBounds(n[i], problem.mazeSize)
        /\ \E i \in 1..4 : /\ checkBacktrack(n[i], searchTree)
                           /\ ~ checkWall(n[i], problem.walls)
        /\ Len(C9_Expected(heap[frontier[1]].coordinates,
                           Range(coordinatesOf(searchTree)))) = 1

\* C10 as stated: for every strategy every node of a returned path occurs in
\* the Solution's searchTree.
C10_PathInTree ==
  \A sol \in Returned : Range(sol.path) \subseteq Range(sol.searchTree)

\* C10 amended: for DFS, BFS, GBFS, AS and CUS1 every node of a returned path
\* occurs in the Solution's searchTree; the path returned by CUS2 is made of
\* new objects holding a direction label only, none of them in the searchTree.
C10_PathInTreeExceptCus2 ==
  \A sol \in Returned \cup (IF pc = "done" THEN {finalSolution} ELSE {}) :
    IF searchMethod = "CUS2"
    THEN \A i \in DOMAIN sol.path :
           /\ sol.path[i] \notin Range(sol.searchTree)
           /\ DOMAIN heap[sol.path[i]] = {"direction"}
    ELSE Range(sol.path) \subseteq Range(sol.searchTree)

C10_Witness ==
  \E sol \in Returned :
    /\ searchMethod = "CUS2"
    /\ sol.status = "found"
    /\ Len(sol.path) >= 2

\* C11: CUS1 never returns a path longer than depthLimit, and never holds in
\* its frontier a node deeper than depthLimit.
C11_PathWithinLimit ==
  searchMethod = "CUS1" =>
    /\ \A sol \in Returned : Len(sol.path) <= depthLimit
    /\ \A i \in DOMAIN frontier : heap[frontier[i]].depth <= depthLimit

\* a path of exactly depthLimit moves has been returned
C11_Witness ==
  /\ SingleDone
  /\ searchMethod = "CUS1"
  /\ finalSolution.status = "found"
  /\ Len(finalSolution.path) = depthLimit

\* C12: when the goal cell is free, the start is a free cell and no sequence
\* of orthogonal steps over free cells leads from the start to the goal, every
\* strategy returns Fail with an empty path and a non-empty searchTree that
\* holds every node generated during the run.
C12_Free(c) == C9_InBounds(c) /\ ~ C9_InWall(c)

\* the free cells connected to the cells of `seen`
RECURSIVE C12_Flood(_)
C12_Flood(seen) ==
  LET more == {c \in Cells(problem.mazeSize) :
                 C12_Free(c) /\ \E d \in seen : manhattan(c, d) = 1}
  IN IF more \subseteq seen THEN seen ELSE C12_Flood(seen \cup more)

C12_Enclosed(start, g) ==
  /\ C12_Free(start)
  /\ C12_Free(g)
  /\ g \notin C12_Flood({start})

C12_EnclosedGoalFails ==
  JustReturned =>
    LET root == lastSolution.searchTree[1]
    IN C12_Enclosed(heap[root].coordinates, goal) =>
         /\ lastSolution.status = "fail"
         /\ lastSolution.path = << >>
         /\ lastSolution.searchTree # << >>
         /\ Range(lastSolution.searchTree) = root .. Len(heap)

\* CUS2 has failed on an enclosed goal after both searches have grown
C12_Witness ==
  /\ JustReturned
  /\ searchMethod = "CUS2"
  /\ C12_Enclosed(heap[lastSolution.searchTree[1]].coordinates, goal)
  /\ Len(searchTree) >= 3
  /\ Len(reverseSearchTree) >= 3

\* C13: on a wall-free maze, for every in-bounds start and goal, AS and CUS2
\* both return Found and their paths have the same length.
C13_SameLengthAsAStar ==
  (pc = "done" /\ previousSolution # noSolution) =>
     /\ previousSolution.status = "found"
     /\ finalSolution.status = "found"
     /\ Len(previousSolution.path) = Len(finalSolution.path)

\* C14: when CUS2 returns Found, every two consecutive nodes of the stitched
\* sequence (forward ancestors, meeting node, backward ancestors reversed) are
\* one orthogonal step apart, the returned path has one entry per step, and
\* every entry is labelled up, left, down or right as its step goes: "broken"
\* is never produced.
C14_Label(from, to) ==
  IF to.y = from.y - 1 /\ to.x = from.x THEN "up; "
  ELSE IF to.x = from.x - 1 /\ to.y = from.y THEN "left; "
  ELSE IF to.y = from.y + 1 /\ to.x = from.x THEN "down; "
  ELSE IF to.x = from.x + 1 /\ to.y = from.y THEN "right; "
  ELSE "none"

C14_UnitSteps ==
  [][ (Running("CUS2") /\ pc' # "loop" /\ lastSolution'.status = "found") =>
        LET stitched == joinedPathAt(intersectingCoordinate(frontier[1],
                                                            reverseFrontier[1]))
            path == lastSolution'.path
        IN /\ Len(path) = Len(stitched) - 1
           /\ \A i \in DOMAIN path :
                /\ manhattan(heap[stitched[i]].coordinates,
                             heap[stitched[i + 1]].coordinates) = 1
                /\ heap'[path[i]].direction
                     \in {"up; ", "left; ", "down; ", "right; "}
                /\ heap'[path[i]].direction
                     = C14_Label(heap[stitched[i]].coordinates,
                                 heap[stitched[i + 1]].coordinates) ]_vars

\* CUS2 has returned a path of three moves or more around a wall
C14_Witness ==
  /\ JustReturned
  /\ searchMethod = "CUS2"
  /\ lastSolution.status = "found"
  /\ Len(lastSolution.path) >= 3
  /\ problem.walls # << >>
  /\ Len(lastSolution.path)
       > manhattan(heap[searchTree[1]].coordinates, heap[reverseSearchTree[1]].coordinates)

\* C15: every node of a searchTree has fromCurrentNode equal to the Manhattan
\* distance to the target of its search (the goal for the forward tree, the
\* start of the invocation for the backward tree of CUS2), fromStartingNode
\* equal to its parent's fromStartingNode plus its own fromCurrentNode, which
\* is the sum of fromCurrentNode over its ancestors and itself (the root's
\* equals its fromCurrentNode), and nodesTravelled = depth = the number of its
\* ancestors, with depth one more than its parent's and 0 for the root.
RECURSIVE C15_Sum(_)
C15_Sum(nodes) ==
  IF nodes = << >> THEN 0
  ELSE heap[Head(nodes)].distanceToGoal.fromCurrentNode + C15_Sum(Tail(nodes))

C15_NodeOk(n, target) ==
  LET node == heap[n]
      d == node.distanceToGoal
      ancestors == node.previousCoordinates
  IN /\ d.fromCurrentNode = manhattan(node.coordinates, target)
     /\ d.fromStartingNode = C15_Sum(ancestors) + d.fromCurrentNode
     /\ d.nodesTravelled = node.depth
     /\ node.depth = Len(ancestors)
     /\ IF ancestors = << >>
        THEN d.fromStartingNode = d.fromCurrentNode /\ node.depth = 0
        ELSE \E k \in DOMAIN ancestors :
               /\ heap[ancestors[k]].depth + 1 = node.depth
               /\ manhattan(heap[ancestors[k]].coordinates, node.coordinates) = 1
               /\ d.fromStartingNode
                    = heap[ancestors[k]].distanceToGoal.fromStartingNode
                        + d.fromCurrentNode

C15_Heuristics ==
  searchTree # << >> =>
    /\ \A i \in DOMAIN searchTree : C15_NodeOk(searchTree[i], goal)
    /\ \A i \in DOMAIN reverseSearchTree :
         C15_NodeOk(reverseSearchTree[i], heap[searchTree[1]].coordinates)

\* C20: in every invocation of CUS2, legs of searchAllGoals included, the
\* backward root is getInitialNode(goal, start) and every backward node's
\* heuristic is computed against start, the coordinate of the forward root of
\* that invocation.
C20_BackwardTargetsStart ==
  (searchMethod = "CUS2" /\ reverseSearchTree # << >>) =>
     LET start == heap[searchTree[1]].coordinates
     IN /\ heap[reverseSearchTree[1]] = getInitialNode(goal, start)
        /\ \A i \in DOMAIN reverseSearchTree :
             heap[reverseSearchTree[i]].distanceToGoal.fromCurrentNode
               = manhattan(heap[reverseSearchTree[i]].coordinates, start)

\* C16: in GBFS (key fromCurrentNode) and in A* (key fromStartingNode) each
\* iteration removes from the frontier exactly one node; no node of the
\* frontier has a smaller key, and of the frontier nodes with that key it is
\* the one inserted earliest (objects are numbered in the order they are
\* created, which is the order they are pushed).
C16_Key(n) ==
  IF searchMethod = "GBFS" THEN heap[n].distanceToGoal.fromCurrentNode
  ELSE heap[n].distanceToGoal.fromStartingNode

C16_RemovesMinimum ==
  [][ (pc = "loop" /\ searchMethod \in {"GBFS", "AS"} /\ frontier # << >>) =>
        \E removed \in Range(frontier) :
          /\ Range(frontier) \ Range(frontier') = {removed}
          /\ \A n \in Range(frontier) :
               /\ C16_Key(removed) <= C16_Key(n)
               /\ C16_Key(n) = C16_Key(removed) => removed <= n ]_vars

\* the node about to be removed shares the minimum key with a node inserted
\* later, and a node inserted before it has a larger key
C16_Witness ==
  /\ pc = "loop"
  /\ searchMethod \in {"GBFS", "AS"}
  /\ Len(frontier) >= 3
  /\ C16_Key(frontier[1]) = C16_Key(frontier[2])
  /\ frontier[1] < frontier[2]
  /\ \E i \in DOMAIN frontier :
       frontier[i] < frontier[1] /\ C16_Key(frontier[i]) > C16_Key(frontier[1])

\* C17: each iteration of DFS removes the last node of the frontier. When its
\* expansion yields candidates, the node left last in the frontier, the next
\* to be removed, is the first of them in compass order (up, left, down,
\* right); when it yields none, it is the most recently pushed of the nodes
\* still in the frontier (objects are numbered in the order they are pushed).
C17_Compass(label) == CHOOSE i \in 1..4 : directionString[i] = label

C17_CompassPriority ==
  [][ (Running("DFS") /\ frontier # << >> /\ pc' = "loop") =>
        LET expanded == frontier[Len(frontier)]
            candidates == (Len(heap) + 1) .. Len(heap')
        IN /\ Range(frontier) \ Range(frontier') = {expanded}
           /\ IF candidates # {}
              THEN LET next == frontier'[Len(frontier')]
                   IN /\ next \in candidates
                      /\ \A n \in candidates :
                           /\ n \in Range(frontier')
                           /\ heap'[n].previousCoordinates[heap'[n].depth] = expanded
                           /\ C17_Compass(heap'[next].direction)
                                <= C17_Compass(heap'[n].direction)
              ELSE /\ frontier' = SubSeq(frontier, 1, Len(frontier) - 1)
                   /\ \A i \in DOMAIN frontier' :
                        frontier'[i] <= frontier'[Len(frontier')] ]_vars

\* DFS is running, a node expanded earlier had two candidates or more, and a
\* node expanded earlier had none while the frontier was not empty
C17_Witness ==
  /\ Running("DFS")
  /\ frontier # << >>
  /\ \E i, j \in DOMAIN searchTree :
       /\ i # j
       /\ heap[searchTree[i]].previousCoordinates # << >>
       /\ heap[searchTree[i]].previousCoordinates
            = heap[searchTree[j]].previousCoordinates
  /\ \E i \in DOMAIN searchTree :
       /\ searchTree[i] \notin Range(frontier)
       /\ \A j \in DOMAIN searchTree :
            searchTree[i] \notin Range(heap[searchTree[j]].previousCoordinates)

\* C18: each iteration of BFS removes from the frontier the node pushed
\* earliest (objects are numbered in the order they are pushed); no node left
\* in or added to the frontier is shallower than the removed one, so the
\* depths of the removed nodes never decrease, and when a node is removed no
\* shallower node of the tree is still waiting in the frontier.
C18_Fifo ==
  [][ (Running("BFS") /\ frontier # << >> /\ pc' = "loop") =>
        \E removed \in Range(frontier) :
          /\ Range(frontier) \ Range(frontier') = {removed}
          /\ \A n \in Range(frontier) : removed <= n
          /\ \A n \in Range(frontier') : heap'[n].depth >= heap[removed].depth
          /\ \A i \in DOMAIN frontier' :
               \A j \in DOMAIN frontier' : i < j => frontier'[i] < frontier'[j]
          /\ \A i \in DOMAIN searchTree :
               heap[searchTree[i]].depth < heap[removed].depth =>
                 searchTree[i] \notin Range(frontier) ]_vars

\* the frontier of BFS holds nodes of two depth levels, the shallower first
C18_Witness ==
  /\ Running("BFS")
  /\ Len(frontier) >= 3
  /\ heap[frontier[1]].depth >= 1
  /\ heap[frontier[Len(frontier)]].depth = heap[frontier[1]].depth + 1

\* C19 as stated: in CUS1 a candidate is pushed onto the frontier only if its
\* depth is strictly below depthLimit; a node whose depth equals depthLimit is
\* never pushed and never expanded.
C19_PushedOnlyBelowLimit ==
  searchMethod = "CUS1" =>
    /\ \A i \in DOMAIN frontier : heap[frontier[i]].depth < depthLimit
    /\ \A i \in DOMAIN searchTree : heap[searchTree[i]].depth <= depthLimit

\* C19 amended: in CUS1 every candidate of an expansion is appended to
\* searchTree regardless of its depth, and it is pushed onto the frontier if
\* and only if its depth is at most depthLimit: a node whose depth equals
\* depthLimit is pushed and expanded, and its candidates, of depth
\* depthLimit + 1, are recorded in searchTree but never pushed nor expanded.
C19_PushedUpToLimit ==
  [][ (Running("CUS1") /\ frontier # << >> /\ pc' = "loop") =>
        LET expanded == frontier[Len(frontier)]
            candidates == (Len(heap) + 1) .. Len(heap')
        IN /\ heap[expanded].depth <= depthLimit
           /\ Len(searchTree') = Len(searchTree) + Cardinality(candidates)
           /\ \A n \in candidates :
                /\ n \in Range(searchTree')
                /\ heap'[n].depth = heap[expanded].depth + 1
                /\ n \in Range(frontier') <=> heap'[n].depth <= depthLimit ]_vars

\* a node of depth depthLimit has been expanded: its candidate, of depth
\* depthLimit + 1, is in the searchTree and not in the frontier
C19_Witness ==
  /\ Running("CUS1")
  /\ \E i \in DOMAIN searchTree :
       /\ heap[searchTree[i]].depth = depthLimit + 1
       /\ searchTree[i] \notin Range(frontier)

\* C21: an iteration of CUS2 returns Found exactly when the coordinate popped
\* forward is in the backward tree or the coordinate popped backward is in the
\* forward tree, so the meeting is detected in the first such iteration; the
\* meeting coordinate is the one popped forward if it is in the backward tree
\* and the one popped backward otherwise; the returned labels applied one by
\* one from the start coordinate trace the stitched sequence (forward
\* ancestors, meeting node, backward ancestors reversed), pass the meeting
\* coordinate and end at the goal; and the path is as long as the depth of the
\* meeting coordinate in the forward tree plus its depth in the backward tree.
C21_Step(from, label) ==
  LET d == CHOOSE e \in Range(C9_Deltas) : e.label = label
  IN [x |-> from.x + d.dx, y |-> from.y + d.dy]

\* the coordinates visited by applying the labels of `path` from `from`
RECURSIVE C21_Walk(_, _, _)
C21_Walk(from, path, h) ==
  IF path = << >> THEN << from >>
  ELSE << from >> \o C21_Walk(C21_Step(from, h[Head(path)].direction), Tail(path), h)

\* the depth of the node of `tree` at coordinate c
C21_DepthAt(tree, c) ==
  LET n == CHOOSE n \in Range(tree) : heap[n].coordinates = c
  IN heap[n].depth

C21_MeetingAndTrace ==
  [][ (Running("CUS2") /\ frontier # << >> /\ reverseFrontier # << >>) =>
        LET forward == heap[frontier[1]].coordinates
            backward == heap[reverseFrontier[1]].coordinates
            forwardMeets == forward \in Range(coordinatesOf(reverseSearchTree))
            backwardMeets == backward \in Range(coordinatesOf(searchTree))
            meeting == IF forwardMeets THEN forward ELSE backward
            start == heap[searchTree[1]].coordinates
        IN /\ (pc' # "loop") <=> (forwardMeets \/ backwardMeets)
           /\ (pc' # "loop") =>
                LET path == lastSolution'.path
                    walk == C21_Walk(start, path, heap')
                    stitched == joinedPathAt(intersectingCoordinate(frontier[1],
                                                                    reverseFrontier[1]))
                    forwardDepth == C21_DepthAt(searchTree, meeting)
                    backwardDepth == C21_DepthAt(reverseSearchTree, meeting)
                IN /\ lastSolution'.status = "found"
                   /\ walk = coordinatesOf(stitched)
                   /\ walk[Len(walk)] = goal
                   /\ walk[forwardDepth + 1] = meeting
                   /\ Len(path) = forwardDepth + backwardDepth ]_vars

\* a later leg of an all-goals run of CUS2, from a position other than the
\* agent's start, has returned a path of two moves or more
C21_Witness ==
  /\ JustReturned
  /\ allGoals
  /\ searchMethod = "CUS2"
  /\ lastSolution.status = "found"
  /\ heap[searchTree[1]].coordinates # problem.agentLocation
  /\ Len(lastSolution.path) >= 2

\* C22 as stated (for a start and a goal that are free cells): CUS2 returns
\* Fail only in a state where the forward and the backward frontier are both
\* empty.
C22_FailOnlyBothEmpty ==
  (/\ searchMethod = "CUS2"
   /\ JustReturned
   /\ lastSolution.status = "fail"
   /\ C12_Free(heap[searchTree[1]].coordinates)
   /\ C12_Free(goal)) =>
     frontier = << >> /\ reverseFrontier = << >>

\* C22 amended: CUS2 returns Fail exactly when an iteration starts with the
\* forward or the backward frontier empty, no meeting having been detected
\* before; the other frontier may still hold unexpanded nodes. The Solution
\* then has an empty path and both trees, and when the start and the goal are
\* free cells no path over free cells joins them.
C22_FailWhenOneEmpty ==
  [][ Running("CUS2") =>
        LET fails == pc' # "loop" /\ lastSolution'.status = "fail"
            start == heap[searchTree[1]].coordinates
        IN /\ fails <=> (frontier = << >> \/ reverseFrontier = << >>)
           /\ fails =>
                /\ lastSolution'.path = << >>
                /\ lastSolution'.searchTree = searchTree \o reverseSearchTree
                /\ UNCHANGED << frontier, reverseFrontier, searchTree,
                                reverseSearchTree, heap >>
                /\ (C12_Free(start) /\ C12_Free(goal)) =>
                     goal \notin C12_Flood({start}) ]_vars

\* CUS2 has returned Fail, start and goal free, with nodes left in a frontier
C22_Witness ==
  /\ searchMethod = "CUS2"
  /\ JustReturned
  /\ lastSolution.status = "fail"
  /\ Len(frontier) + Len(reverseFrontier) >= 1
  /\ C12_Free(heap[searchTree[1]].coordinates)
  /\ C12_Free(goal)

\* C23: every run terminates with a Solution of status Found or Fail. Each
\* tree holds at most rows * columns + 1 nodes; every iteration of a strategy
\* that does not return lowers by at least one the number of iterations still
\* possible, which is, per tree, the room left in the tree plus the nodes
\* waiting in its frontier, so a search makes at most rows * columns + 1
\* iterations.
C23_Room(tree, waiting) ==
  (problem.mazeSize.rows * problem.mazeSize.columns + 1 - Len(tree)) + Len(waiting)

C23_Budget ==
  IF searchMethod = "CUS2"
  THEN C23_Room(searchTree, frontier) + C23_Room(reverseSearchTree, reverseFrontier)
  ELSE C23_Room(searchTree, frontier)

C23_Terminates ==
  /\ [](/\ Len(searchTree) <= problem.mazeSize.rows * problem.mazeSize.columns + 1
        /\ Len(reverseSearchTree)
             <= problem.mazeSize.rows * problem.mazeSize.columns + 1
        /\ Len(frontier) <= Len(searchTree)
        /\ Len(reverseFrontier) <= Len(reverseSearchTree)
        /\ pc = "done" => finalSolution.status \in {"found", "fail"})
  /\ [][ (pc = "loop" /\ pc' = "loop") => C23_Budget' < C23_Budget ]_vars
  /\ <>(pc = "done")

\* a single-goal search has ended after expanding every cell of a 2 x 2 maze
C23_Witness ==
  /\ SingleDone
  /\ finalSolution.status = "fail"
  /\ Len(searchTree) = problem.mazeSize.rows * problem.mazeSize.columns
  /\ Len(searchTree) >= 4

\* C24: for start # goal, each of DFS, BFS, GBFS and AS returns Found if and
\* only if the goal can be reached from the start by unit orthogonal moves
\* into in-bounds cells outside every wall, and Fail exactly otherwise.
C24_Strategies == {"DFS", "BFS", "GBFS", "AS"}

C24_FoundIffReachable ==
  (JustReturned /\ searchMethod \in C24_Strategies) =>
    LET start == heap[lastSolution.searchTree[1]].coordinates
    IN start # goal =>
         /\ lastSolution.status \in {"found", "fail"}
         /\ lastSolution.status = "found" <=> goal \in C12_Flood({start})

\* BFS has gone round a wall: its path is longer than the Manhattan
\* distance from the start to the goal
C24_Witness ==
  /\ JustReturned
  /\ searchMethod = "BFS"
  /\ lastSolution.status = "found"
  /\ problem.walls # << >>
  /\ Len(lastSolution.path)
       > manhattan(heap[lastSolution.searchTree[1]].coordinates, goal)

\* C25: for DFS, BFS, GBFS, AS and CUS1 every Found path is a valid walk: its
\* first node is one unit step from the start, every node lies one step from
\* its predecessor in the direction of its own label, every node is in bounds
\* and outside every wall, no coordinate is repeated (the start included),
\* and the last node, and only the last, has isGoal set and is at the goal.
C25_ValidWalk ==
  (JustReturned /\ searchMethod # "CUS2" /\ lastSolution.status = "found") =>
    LET path == lastSolution.path
        full == << lastSolution.searchTree[1] >> \o path
        at(i) == heap[full[i]].coordinates
    IN /\ path # << >>
       /\ manhattan(at(1), at(2)) = 1
       /\ \A i \in 2..Len(full) :
            /\ heap[full[i]].direction \in Range(directionString)
            /\ at(i) = C21_Step(at(i - 1), heap[full[i]].direction)
            /\ C12_Free(at(i))
       /\ NoDuplicates([i \in DOMAIN full |-> at(i)])
       /\ \A i \in DOMAIN path : heap[path[i]].isGoal <=> i = Len(path)
       /\ heap[path[Len(path)]].coordinates = goal

\* CUS1 has returned a path of four moves or more in a maze with a wall
C25_Witness ==
  /\ JustReturned
  /\ searchMethod = "CUS1"
  /\ lastSolution.status = "found"
  /\ problem.walls # << >>
  /\ Len(lastSolution.path) >= 4

\* C26: in searchAllGoals the current position only advances to a goal whose
\* leg returned Found: a round in which some remaining goal has a Found leg
\* never selects a Fail leg, and the goal of a Fail leg never becomes the
\* start of a following round.
C26_AdvancesOnFoundOnly ==
  [][ (pc = "map" /\ Len(solutionPath') = Len(solutionPath) + 1) =>
        LET selected == solutionPath'[Len(solutionPath')]
        IN /\ (\E i \in DOMAIN solutions : solutions[i].solution.status = "found")
                => selected.status = "found"
           /\ (selected.status = "fail" /\ goalList' # << >>)
                => startNode' = startNode ]_vars

\* C27: CUS1 returns Found whenever start # goal and the goal can be reached
\* from the start by at most depthLimit unit moves into in-bounds cells
\* outside every wall.
\* the cells of `seen` and the free cells at most k moves away from them
RECURSIVE C27_Within(_, _)
C27_Within(seen, k) ==
  LET more == {c \in Cells(problem.mazeSize) :
                 C12_Free(c) /\ \E d \in seen : manhattan(c, d) = 1}
  IN IF k = 0 \/ more \subseteq seen THEN seen ELSE C27_Within(seen \cup more, k - 1)

C27_FoundWithinLimit ==
  (SingleDone /\ searchMethod = "CUS1") =>
    LET start == problem.agentLocation
    IN (start # goal /\ goal \in C27_Within({start}, depthLimit))
         => finalSolution.status = "found"
====
